---- MODULE Spec2Model ----
(***************************************************************************)
(* Model of routes/admin/admin.js: the profile-update workflow (multer     *)
(* disk storage, stale-file cleanup, profile/user merge) and the           *)
(* replace-all handlers for education and experience entries.              *)
(*                                                                         *)
(* Representation.                                                         *)
(*  - A JavaScript value that may be undefined/null is either the string   *)
(*    Undefined or, for structured values, a sequence of length 0 (absent) *)
(*    or 1 (present).                                                      *)
(*  - A file name is a sequence of characters; a stored file is the pair   *)
(*    <<directory, file name>> below the service's working area.           *)
(*  - A mongoose collection is a set (profiles, users: one document per    *)
(*    id) or a sequence in insertion order (education, experience).        *)
(*  - Requests are served one at a time through pending/last; the steps    *)
(*    between the awaits of concurrent handlers are kept in running.       *)
(***************************************************************************)
EXTENDS Integers, Sequences, FiniteSets, TLC

\* ------------------------------------------------------------------ bounds
MaxTime == 2        \* readings of Date.now() range over 1..MaxTime
MaxDisk == 2        \* files the storage backend holds at most
MaxEntries == 2     \* entries in one add-education / add-experience body
MaxDocs == 3        \* education plus experience documents held at most

\* ------------------------------------------------------------- JS values
Undefined == "undefined"
Falsy(v) == v \in {Undefined, ""}
Truthy(v) == ~Falsy(v)
\* a || b
Or(a, b) == IF Truthy(a) THEN a ELSE b
\* x ? [x] : []  -- optional structured values
None == <<>>
Some(x) == <<x>>
IsSome(o) == Len(o) = 1
Get(o) == o[1]

Users == {"u1", "u2"}
\* req.user?.id: a user id, or Undefined when the auth collaborator attached none
Callers == Users \cup {Undefined}

Slots == {"profilePic", "profilePic2", "resumePdf", "video"}

\* ------------------------------------------------------- multer storage
\* file.mimetype, "<main>/<sub>"
MimeTypes ==
    { [main |-> "image", sub |-> "png"],
      [main |-> "application", sub |-> "pdf"],
      [main |-> "application", sub |-> "json"],
      [main |-> "video", sub |-> "mp4"] }

\* type.startsWith(prefix + "/")
StartsWithMain(type, prefix) == type.main = prefix

\* storage.destination
destination(type) ==
    IF StartsWithMain(type, "image") THEN "images"
    ELSE IF type = [main |-> "application", sub |-> "pdf"] THEN "pdfs"
    ELSE IF StartsWithMain(type, "video") THEN "videos"
    ELSE "others"

IsSpace(c) == c \in {" ", "\t"}

\* originalname.replace(/\s+/g, "_"): every maximal run of whitespace becomes one "_"
RECURSIVE safeName(_)
safeName(s) ==
    IF s = <<>> THEN <<>>
    ELSE IF IsSpace(Head(s))
         THEN IF Len(s) > 1 /\ IsSpace(s[2])
              THEN safeName(Tail(s))
              ELSE <<"_">> \o safeName(Tail(s))
         ELSE <<Head(s)>> \o safeName(Tail(s))

\* storage.filename: `${Date.now()}-${safeName}`
filename(at, originalname) == <<at, "-">> \o safeName(originalname)

\* The directories made at load time: images, pdfs, videos -- not others.
StartupDirs == {"images", "pdfs", "videos"}

\* where multer writes a part: <destination>/<filename>
StoredAt(part) == <<destination(part.mimetype), filename(part.at, part.originalname)>>

\* the string `/uploads/<dir>/<name>` kept in a Profile path field
UrlPath(dir, name) == <<"/", "uploads", dir, name>>

\* path.join(__dirname, "../../", filePath): the stored file a path field names
fullPath(filePath) == <<filePath[3], filePath[4]>>

\* deleteOldFile(filePath) on the file set disk; filePath is None or Some(path)
deleteOldFile(disk, filePath) ==
    IF ~IsSome(filePath) THEN disk
    ELSE IF fullPath(Get(filePath)) \in disk THEN disk \ {fullPath(Get(filePath))}
    ELSE disk

\* ------------------------------------------------------------------ state
VARIABLES
    files,        \* the stored files, each <<directory, file name>>
    othersDir,    \* whether the directory uploads/others exists
    now,          \* the latest reading of Date.now()
    profiles,     \* the Profile collection
    users,        \* the User collection
    education,    \* the Education collection, in insertion order
    experience,   \* the Experience collection, in insertion order
    pending,      \* the request in flight, or NoRequest
    last,         \* the response to the latest request
    running       \* per connection, the update-profile handler suspended at an await

vars == <<files, othersDir, now, profiles, users, education, experience, pending, last, running>>

\* Profile.findOne({ userId })
findProfile(coll, userId) == {p \in coll : p.userId = userId}
\* User.findById(userId)
findUser(coll, userId) == {u \in coll : u.id = userId}

\* the Profile field a slot is saved in
FieldOf == [profilePic |-> "profilePic", profilePic2 |-> "profilePic2",
            resumePdf |-> "pdf", video |-> "video"]

\* ----------------------------------------------------- upload middleware
Parts(req) == {Get(req.files[s]) : s \in {x \in Slots : IsSome(req.files[x])}}
DirExists(dir, others) == dir \in StartupDirs \/ (dir = "others" /\ others)

\* upload.fields(...): every part is written to its destination under its
\* generated name. A part whose directory does not exist fails the request
\* before the handler runs, and multer removes what the request had written.
upload(req, disk, others) ==
    LET written == {StoredAt(p) : p \in Parts(req)}
        ok == \A p \in Parts(req) : DirExists(destination(p.mimetype), others)
    IN  [ok |-> ok, disk |-> IF ok THEN disk \cup written ELSE disk \ written]

\* req.files[slot]?.[0]?.filename || null
uploadedName(req, slot) ==
    IF IsSome(req.files[slot])
    THEN Some(filename(Get(req.files[slot]).at, Get(req.files[slot]).originalname))
    ELSE None

\* name ? `/uploads/<dir>/${name}` : otherwise
pathOr(dir, name, otherwise) ==
    IF IsSome(name) THEN Some(UrlPath(dir, Get(name))) ELSE otherwise

\* ------------------------------------------------ POST /update-profile
\* the four conditional deleteOldFile calls on an existing profile
reclaim(disk, req, profile) ==
    LET d1 == IF IsSome(uploadedName(req, "profilePic")) /\ IsSome(profile.profilePic)
              THEN deleteOldFile(disk, profile.profilePic) ELSE disk
        d2 == IF IsSome(uploadedName(req, "profilePic2")) /\ IsSome(profile.profilePic2)
              THEN deleteOldFile(d1, profile.profilePic2) ELSE d1
        d3 == IF IsSome(uploadedName(req, "resumePdf")) /\ IsSome(profile.pdf)
              THEN deleteOldFile(d2, profile.pdf) ELSE d2
        d4 == IF IsSome(uploadedName(req, "video")) /\ IsSome(profile.video)
              THEN deleteOldFile(d3, profile.video) ELSE d3
    IN  d4

\* the assignments to an existing profile
mergeProfile(profile, req) ==
    [userId |-> profile.userId,
     name |-> req.body.name,
     profilePic |-> pathOr("images", uploadedName(req, "profilePic"), profile.profilePic),
     profilePic2 |-> pathOr("images", uploadedName(req, "profilePic2"), profile.profilePic2),
     pdf |-> pathOr("pdfs", uploadedName(req, "resumePdf"), profile.pdf),
     video |-> pathOr("videos", uploadedName(req, "video"), profile.video),
     aboutText |-> Or(req.body.aboutText, profile.aboutText)]

\* new Profile({...})
newProfile(userId, req) ==
    [userId |-> userId,
     name |-> req.body.name,
     profilePic |-> pathOr("images", uploadedName(req, "profilePic"), None),
     profilePic2 |-> pathOr("images", uploadedName(req, "profilePic2"), None),
     pdf |-> pathOr("pdfs", uploadedName(req, "resumePdf"), None),
     video |-> pathOr("videos", uploadedName(req, "video"), None),
     aboutText |-> req.body.aboutText]

\* mergeUser that assigns the incoming values as they come
mergeUser_Overwrite(user, req) ==
    [id |-> user.id,
     email |-> user.email,
     name |-> req.body.name,
     phoneNumber |-> req.body.phoneNumber,
     degree |-> req.body.degree,
     birthday |-> req.body.birthday,
     address |-> req.body.address,
     experience |-> req.body.experience]

\* the assignments to the caller's User document
mergeUser(user, req) ==
    [id |-> user.id,
     email |-> user.email,
     name |-> Or(req.body.name, user.name),
     phoneNumber |-> Or(req.body.phoneNumber, user.phoneNumber),
     degree |-> Or(req.body.degree, user.degree),
     birthday |-> Or(req.body.birthday, user.birthday),
     address |-> Or(req.body.address, user.address),
     experience |-> Or(req.body.experience, user.experience)]

\* a database call that throws is the request's fault; the catch answers 500
Faults == {"none", "findProfile", "findUser", "saveProfile", "saveUser"}

Outcome(status, disk, profs, usrs, data) ==
    [status |-> status, disk |-> disk, profiles |-> profs, users |-> usrs, data |-> data]

\* the handler with fs.unlinkSync called on a prior path whose file is absent:
\* the call throws and the catch answers 500
updateProfileHandler_Unguarded(req, disk, profs, usrs) ==
    LET userId == req.caller
        found == findProfile(profs, userId)
        user == findUser(usrs, userId)
        profile == CHOOSE p \in found : TRUE
        absent == \E s \in Slots :
                     /\ IsSome(uploadedName(req, s))
                     /\ IsSome(profile[FieldOf[s]])
                     /\ fullPath(Get(profile[FieldOf[s]])) \notin disk
        reclaimed == IF found # {} THEN reclaim(disk, req, profile) ELSE disk
        saved == IF found # {} THEN mergeProfile(profile, req) ELSE newProfile(userId, req)
        profs2 == (profs \ found) \cup {saved}
        usrs2 == IF user # {}
                 THEN (usrs \ user) \cup {mergeUser(CHOOSE u \in user : TRUE, req)}
                 ELSE usrs
    IN  IF Falsy(userId) THEN Outcome(401, disk, profs, usrs, None)
        ELSE IF Falsy(req.body.name) THEN Outcome(400, disk, profs, usrs, None)
        ELSE IF found # {} /\ absent THEN Outcome(500, disk, profs, usrs, None)
        ELSE Outcome(200, reclaimed, profs2, usrs2, Some(saved))

\* the route handler, run on the disk the upload middleware left
updateProfileHandler(req, disk, profs, usrs) ==
    LET userId == req.caller
        found == findProfile(profs, userId)
        user == findUser(usrs, userId)
        profile == CHOOSE p \in found : TRUE
        reclaimed == IF found # {} THEN reclaim(disk, req, profile) ELSE disk
        saved == IF found # {} THEN mergeProfile(profile, req) ELSE newProfile(userId, req)
        profs2 == (profs \ found) \cup {saved}
        usrs2 == IF user # {}
                 THEN (usrs \ user) \cup {mergeUser(CHOOSE u \in user : TRUE, req)}
                 ELSE usrs
    IN  IF Falsy(userId) THEN Outcome(401, disk, profs, usrs, None)
        ELSE IF Falsy(req.body.name) THEN Outcome(400, disk, profs, usrs, None)
        ELSE IF req.fault \in {"findProfile", "findUser"}
             THEN Outcome(500, disk, profs, usrs, None)
        ELSE IF req.fault = "saveProfile" THEN Outcome(500, reclaimed, profs, usrs, None)
        ELSE IF user # {} /\ req.fault = "saveUser"
             THEN Outcome(500, reclaimed, profs2, usrs, None)
        ELSE Outcome(200, reclaimed, profs2, usrs2, Some(saved))

\* the route: upload middleware, then the handler
updateProfile(req, disk, others, profs, usrs) ==
    LET up == upload(req, disk, others)
    IN  IF up.ok THEN updateProfileHandler(req, up.disk, profs, usrs)
        ELSE Outcome(500, up.disk, profs, usrs, None)

\* ------------------------------------------------------ GET /get-profile
\* the empty string, as the value of a field that holds a path
EmptyPath == <<>>
\* path || ''
pathOrEmpty(o) == IF IsSome(o) THEN o ELSE Some(EmptyPath)

\* the data of the 200 answer
profileView(profile, user) ==
    [name |-> profile.name,
     email |-> user.email,
     profilePic |-> profile.profilePic,
     profilePic2 |-> pathOrEmpty(profile.profilePic2),
     pdf |-> profile.pdf,
     video |-> profile.video,
     aboutText |-> Or(profile.aboutText, ""),
     phoneNumber |-> Or(user.phoneNumber, ""),
     degree |-> Or(user.degree, ""),
     birthday |-> Or(user.birthday, ""),
     address |-> Or(user.address, ""),
     experience |-> Or(user.experience, "")]

View(status, data) == [status |-> status, data |-> data]

\* getProfile that never falls back to a stored User
getProfile_NoFallback(req, first, profs, usrs) ==
    LET userId == req.caller
        profile == findProfile(profs, userId)
        user == findUser(usrs, userId)
    IN  IF req.fault # "none" THEN View(500, None)
        ELSE IF profile = {} \/ user = {} THEN View(404, None)
        ELSE View(200, Some(profileView(CHOOSE p \in profile : TRUE, CHOOSE u \in user : TRUE)))

\* the /get-profile handler; first is what User.findOne() returns, None or
\* Some(user). No Profile has an undefined userId, and findById(undefined)
\* finds nothing.
getProfile(req, first, profs, usrs) ==
    LET userId == IF Truthy(req.caller) THEN req.caller
                  ELSE IF IsSome(first) THEN Get(first).id ELSE Undefined
        profile == findProfile(profs, userId)
        user == findUser(usrs, userId)
    IN  IF req.fault # "none" THEN View(500, None)
        ELSE IF profile = {} \/ user = {} THEN View(404, None)
        ELSE View(200, Some(profileView(CHOOSE p \in profile : TRUE, CHOOSE u \in user : TRUE)))

\* ------------------------------------- POST /add-education, /add-experience
\* req.body after express.json(): an array, a single object, or anything else
ArrayBody(items) == [shape |-> "array", items |-> items]
ObjectBody(entry) == [shape |-> "object", items |-> <<entry>>]
OtherBody == [shape |-> "other", items |-> <<>>]

\* normalize that turns an empty array down as it does a body that is no object
normalize_NonEmpty(body) ==
    IF body.shape = "array" /\ body.items # <<>> THEN Some(body.items)
    ELSE IF body.shape = "object" THEN Some(<<body.items[1]>>)
    ELSE None

\* "Normalize to array": None stands for the 400 of the format check
normalize(body) ==
    IF body.shape = "array" THEN Some(body.items)
    ELSE IF body.shape = "object" THEN Some(<<body.items[1]>>)
    ELSE None

\* newData.map(entry => ({ ...entry, userId }))
withUser(newData, userId) ==
    [i \in 1..Len(newData) |-> [newData[i] EXCEPT !.userId = userId]]

validEducation(edu) ==
    ~(Falsy(edu.degreeName) \/ Falsy(edu.collegeName) \/ Falsy(edu.fromYear) \/ Falsy(edu.toYear))

validExperience(exp) ==
    ~(Falsy(exp.designation) \/ Falsy(exp.companyName) \/ Falsy(exp.fromTime) \/ Falsy(exp.toTime))

\* deleteMany that removes nothing
deleteMany_Nothing(coll, userId) == coll

\* Model.deleteMany({ userId })
deleteMany(coll, userId) == SelectSeq(coll, LAMBDA d : d.userId # userId)
\* Model.insertMany(docs)
insertMany(coll, docs) == coll \o docs

RecordFaults == {"none", "deleteMany", "insertMany"}
InvalidEducationFormat == "Invalid education data format"
EducationFieldsRequired ==
    "Each education object must include degreeName, collegeName, fromYear, and toYear"
InvalidExperienceFormat == "Invalid Experience data format"
ExperienceFieldsRequired ==
    "Each Experience object must include Disignation, Company Name and Time."

Answer(status, coll, data) == [status |-> status, coll |-> coll, data |-> data]

\* addEducation with the delete step moved before the validation
addEducation_DeleteFirst(req, coll) ==
    LET newData == normalize(req.body)
        userId == req.caller
        educationWithUser == withUser(Get(newData), userId)
        deleted == deleteMany(coll, userId)
    IN  IF ~IsSome(newData) THEN Answer(400, coll, Some(InvalidEducationFormat))
        ELSE IF userId = Undefined THEN Answer(500, coll, None)
        ELSE IF \E i \in 1..Len(educationWithUser) : ~validEducation(educationWithUser[i])
             THEN Answer(400, deleted, Some(EducationFieldsRequired))
        ELSE Answer(200, insertMany(deleted, educationWithUser), Some(educationWithUser))

\* the /add-education handler; req.user.id throws when no user is attached
addEducation(req, coll) ==
    LET newData == normalize(req.body)
        userId == req.caller
        educationWithUser == withUser(Get(newData), userId)
        deleted == deleteMany(coll, userId)
    IN  IF ~IsSome(newData) THEN Answer(400, coll, Some(InvalidEducationFormat))
        ELSE IF userId = Undefined THEN Answer(500, coll, None)
        ELSE IF \E i \in 1..Len(educationWithUser) : ~validEducation(educationWithUser[i])
             THEN Answer(400, coll, Some(EducationFieldsRequired))
        ELSE IF req.fault = "deleteMany" THEN Answer(500, coll, None)
        ELSE IF req.fault = "insertMany" THEN Answer(500, deleted, None)
        ELSE Answer(200, insertMany(deleted, educationWithUser), Some(educationWithUser))

\* addExperience that puts the deleted entries back when the insert fails
addExperience_RollsBack(req, coll) ==
    LET newData == normalize(req.body)
        userId == req.caller
        experienceWithUser == withUser(Get(newData), userId)
        deleted == deleteMany(coll, userId)
    IN  IF ~IsSome(newData) THEN Answer(400, coll, Some(InvalidExperienceFormat))
        ELSE IF userId = Undefined THEN Answer(500, coll, None)
        ELSE IF \E i \in 1..Len(experienceWithUser) : ~validExperience(experienceWithUser[i])
             THEN Answer(400, coll, Some(ExperienceFieldsRequired))
        ELSE IF req.fault \in {"deleteMany", "insertMany"} THEN Answer(500, coll, None)
        ELSE Answer(200, insertMany(deleted, experienceWithUser), Some(experienceWithUser))

\* the /add-experience handler
addExperience(req, coll) ==
    LET newData == normalize(req.body)
        userId == req.caller
        experienceWithUser == withUser(Get(newData), userId)
        deleted == deleteMany(coll, userId)
    IN  IF ~IsSome(newData) THEN Answer(400, coll, Some(InvalidExperienceFormat))
        ELSE IF userId = Undefined THEN Answer(500, coll, None)
        ELSE IF \E i \in 1..Len(experienceWithUser) : ~validExperience(experienceWithUser[i])
             THEN Answer(400, coll, Some(ExperienceFieldsRequired))
        ELSE IF req.fault = "deleteMany" THEN Answer(500, coll, None)
        ELSE IF req.fault = "insertMany" THEN Answer(500, deleted, None)
        ELSE Answer(200, insertMany(deleted, experienceWithUser), Some(experienceWithUser))

\* --------------------------------------------------------------- inputs
OrigNames == { <<"c", "v">>, <<"a", " ", " ", "b">> }
Times == 1..MaxTime
PartSet(types, names) ==
    {[mimetype |-> m, originalname |-> n, at |-> t] : m \in types, n \in names, t \in Times}
\* req.files with no part, with one part in one slot, with a part in each of two slots
OnePartIn(slots, types, names) ==
    {[s \in Slots |-> IF s = x THEN Some(p) ELSE None] : x \in slots, p \in PartSet(types, names)}
OnePart(types, names) == OnePartIn(Slots, types, names)
TwoParts(types, names) ==
    {[s \in Slots |-> IF s = x THEN Some(p) ELSE IF s = y THEN Some(q) ELSE None] :
        x \in Slots, y \in Slots, p \in PartSet(types, names), q \in PartSet(types, names)}
NoFiles == [s \in Slots |-> None]

TextBody(name, text, about) ==
    [name |-> name, phoneNumber |-> text, degree |-> text, birthday |-> text,
     address |-> text, experience |-> text, aboutText |-> about]

UserDoc(id, text) ==
    [id |-> id, email |-> <<id, "@", "mail">>, name |-> "Old", phoneNumber |-> text,
     degree |-> text, birthday |-> text, address |-> text, experience |-> text]

Max(S) == CHOOSE x \in S : \A y \in S : y <= x

\* ------------------------------------------------ concurrent connections
Conns == {1, 2}
NoProfileRequest ==
    [op |-> "update-profile", caller |-> Undefined,
     body |-> TextBody(Undefined, Undefined, Undefined), files |-> NoFiles, fault |-> "none"]
\* a connection that carries no request
Idle ==
    [pc |-> "idle", req |-> NoProfileRequest, profile |-> None, user |-> None,
     merged |-> None, wrote |-> {}, reclaimed |-> {}, status |-> 0, data |-> None]

\* ----------------------------------------------------------------- steps
NoRequest == [op |-> "none"]
NoResponse == [op |-> "none", caller |-> Undefined, status |-> 0, data |-> None]

\* what the upload middleware of a request in flight will write
Incoming(req) ==
    IF req.op = "update-profile" THEN {StoredAt(p) : p \in Parts(req)} ELSE {}

Reads == {"get-profile", "get-education", "get-experience"}

\* a request arrives; requests are served one at a time. The client of a write
\* has consumed the previous response; a read is sent with it still at hand.
Receive(req) ==
    /\ pending = NoRequest
    /\ req.op = "update-profile" =>
        /\ \A p \in Parts(req) : p.at >= now
        /\ Cardinality(files \cup Incoming(req)) <= MaxDisk
    /\ pending' = req
    /\ last' = IF req.op \in Reads THEN last ELSE NoResponse
    /\ UNCHANGED <<files, othersDir, now, profiles, users, education, experience, running>>

\* POST /update-profile, from the first byte of the body to the response
UpdateProfile ==
    /\ pending.op = "update-profile"
    /\ \E out \in {updateProfile(pending, files, othersDir, profiles, users)} :
        /\ files' = out.disk
        /\ profiles' = out.profiles
        /\ users' = out.users
        /\ last' = [op |-> "update-profile", caller |-> pending.caller,
                    status |-> out.status, data |-> out.data]
    /\ now' = Max({p.at : p \in Parts(pending)} \cup {now})
    /\ pending' = NoRequest
    /\ UNCHANGED <<othersDir, education, experience, running>>

\* POST /add-education
AddEducation ==
    /\ pending.op = "add-education"
    /\ \E out \in {addEducation(pending, education)} :
        /\ education' = out.coll
        /\ last' = [op |-> "add-education", caller |-> pending.caller,
                    status |-> out.status, data |-> out.data]
    /\ pending' = NoRequest
    /\ UNCHANGED <<files, othersDir, now, profiles, users, experience, running>>

\* POST /add-experience
AddExperience ==
    /\ pending.op = "add-experience"
    /\ \E out \in {addExperience(pending, experience)} :
        /\ experience' = out.coll
        /\ last' = [op |-> "add-experience", caller |-> pending.caller,
                    status |-> out.status, data |-> out.data]
    /\ pending' = NoRequest
    /\ UNCHANGED <<files, othersDir, now, profiles, users, education, running>>

\* GET /get-education: Education.find()
GetEducation ==
    /\ pending.op = "get-education"
    /\ last' = [op |-> "get-education", caller |-> pending.caller,
                status |-> 200, data |-> Some(education)]
    /\ pending' = NoRequest
    /\ UNCHANGED <<files, othersDir, now, profiles, users, education, experience, running>>

\* GET /get-experience: Experience.find()
GetExperience ==
    /\ pending.op = "get-experience"
    /\ last' = [op |-> "get-experience", caller |-> pending.caller,
                status |-> 200, data |-> Some(experience)]
    /\ pending' = NoRequest
    /\ UNCHANGED <<files, othersDir, now, profiles, users, education, experience, running>>

\* User.findOne() with no filter: any stored User, or nothing when there is none
FirstUser(usrs) == IF usrs = {} THEN {None} ELSE {Some(u) : u \in usrs}

\* GET /get-profile
GetProfile ==
    /\ pending.op = "get-profile"
    /\ \E first \in FirstUser(users) :
        \E out \in {getProfile(pending, first, profiles, users)} :
            last' = [op |-> "get-profile", caller |-> pending.caller,
                     status |-> out.status, data |-> out.data]
    /\ pending' = NoRequest
    /\ UNCHANGED <<files, othersDir, now, profiles, users, education, experience, running>>

\* ------------------------------------------------- the file workflow
Init ==
    /\ files = {}
    /\ othersDir \in BOOLEAN
    /\ now = 1
    /\ profiles = {}
    /\ users \in {{UserDoc(u, "old") : u \in Users}, {UserDoc("u1", "old")},
                 {UserDoc("u1", Undefined)}}
    /\ education = <<>>
    /\ experience = <<>>
    /\ pending = NoRequest
    /\ last = NoResponse
    /\ running = [c \in Conns |-> Idle]

\* every user has a User document
InitStore == Init /\ users = {UserDoc(u, "old") : u \in Users}

ProfileRequest(caller, body, fm, fault) ==
    [op |-> "update-profile", caller |-> caller, body |-> body, files |-> fm, fault |-> fault]

\* one owner or nobody, with or without a name, no part or one part of any type in any slot
Requests ==
    {ProfileRequest(c, TextBody(n, Undefined, Undefined), fm, "none") :
        c \in {"u1", Undefined}, n \in {"Ann", Undefined},
        fm \in {NoFiles} \cup OnePart(MimeTypes, {<<"c", "v">>})}

Next ==
    \/ \E req \in Requests : Receive(req)
    \/ UpdateProfile

Spec == InitStore /\ [][Next]_vars

\* two parts of one body, read within the same millisecond or not
PairRequests ==
    {ProfileRequest("u1", TextBody("Ann", Undefined, Undefined), fm, "none") :
        fm \in {NoFiles} \cup OnePart({[main |-> "image", sub |-> "png"]}, {<<"c", "v">>})
                  \cup TwoParts({[main |-> "image", sub |-> "png"]}, {<<"c", "v">>})}

NextPair ==
    \/ \E req \in PairRequests : Receive(req)
    \/ UpdateProfile

SpecPair == InitStore /\ [][NextPair]_vars

\* two owners uploading pictures
OwnerRequests ==
    {ProfileRequest(c, TextBody("Ann", Undefined, Undefined), fm, "none") :
        c \in Users,
        fm \in {NoFiles} \cup OnePartIn({"profilePic", "profilePic2"},
                                        {[main |-> "image", sub |-> "png"]}, {<<"c", "v">>})}

NextOwners ==
    \/ \E req \in OwnerRequests : Receive(req)
    \/ UpdateProfile

SpecOwners == InitStore /\ [][NextOwners]_vars

\* --------------------------------- the file workflow, database failing
\* u1 sends a name, with or without a picture, and a database call throws or none does
BrokenRequests ==
    {ProfileRequest("u1", TextBody("Ann", t, Undefined), fm, f) :
        t \in {Undefined, "new"}, f \in Faults,
        fm \in {NoFiles} \cup OnePartIn({"profilePic", "profilePic2"},
                                        {[main |-> "image", sub |-> "png"]}, {<<"c", "v">>})}

NextBroken ==
    \/ \E req \in BrokenRequests : Receive(req)
    \/ UpdateProfile

SpecBroken == InitStore /\ [][NextBroken]_vars

\* ------------------------------------------------- the user merge
TextFields == {"phoneNumber", "degree", "birthday", "address", "experience"}
Incoming5 == [TextFields -> {Undefined, "new"}] \cup {[f \in TextFields |-> ""]}

TextRequests ==
    {ProfileRequest(c,
        [name |-> n, phoneNumber |-> t.phoneNumber, degree |-> t.degree,
         birthday |-> t.birthday, address |-> t.address, experience |-> t.experience,
         aboutText |-> Undefined],
        NoFiles, "none") :
        c \in Callers, n \in {"Ann", Undefined}, t \in Incoming5}

\* u1 has a User document, with or without its descriptive fields; u2 has none
InitUsers ==
    /\ Init
    /\ othersDir = FALSE
    /\ users \in {{UserDoc("u1", "old")}, {UserDoc("u1", Undefined)}}

NextUsers ==
    \/ \E req \in TextRequests : Receive(req)
    \/ UpdateProfile

SpecUsers == InitUsers /\ [][NextUsers]_vars

\* ------------------------------- update-profile, await by await
\* a save that gives up its changes when the stored document is no longer the
\* one that was loaded
saveLoaded_IfUnchanged(stored, loaded, merged) ==
    IF stored = loaded THEN merged ELSE stored

\* document.save() of a loaded document writes the fields the handler changed
\* since the load; the other fields of the stored document stay as they are
saveLoaded(stored, loaded, merged) ==
    [f \in DOMAIN merged |-> IF merged[f] # loaded[f] THEN merged[f] ELSE stored[f]]

\* the connection goes on to its next await
Goto(c, h) == running' = [running EXCEPT ![c] = h]
\* the connection answers
Respond(c, status, data) ==
    Goto(c, [running[c] EXCEPT !.pc = "done", !.status = status, !.data = data])

\* the request's parts are stored, the handler starts: the two checks, the
\* uploaded names, and the call of Profile.findOne
Start(c, req) ==
    /\ running[c].pc = "idle"
    /\ \A p \in Parts(req) : p.at >= now
    /\ Cardinality(files \cup Incoming(req)) <= MaxDisk + 1
    /\ \E up \in {upload(req, files, othersDir)} :
        /\ files' = up.disk
        /\ Goto(c, [running[c] EXCEPT
                !.req = req,
                !.wrote = IF up.ok THEN Incoming(req) ELSE {},
                !.pc = IF ~up.ok \/ Falsy(req.caller) \/ Falsy(req.body.name)
                       THEN "done" ELSE "findProfile",
                !.status = IF ~up.ok THEN 500
                           ELSE IF Falsy(req.caller) THEN 401
                           ELSE IF Falsy(req.body.name) THEN 400 ELSE 0])
    /\ now' = Max({p.at : p \in Parts(req)} \cup {now})
    /\ UNCHANGED <<othersDir, profiles, users, education, experience, pending, last>>

\* await Profile.findOne({ userId })
LoadProfile(c) ==
    /\ running[c].pc = "findProfile"
    /\ \E found \in {findProfile(profiles, running[c].req.caller)} :
        \E loaded \in (IF found = {} THEN {None} ELSE {Some(p) : p \in found}) :
            Goto(c, [running[c] EXCEPT !.profile = loaded, !.pc = "findUser"])
    /\ UNCHANGED <<files, othersDir, now, profiles, users, education, experience, pending, last>>

\* await User.findById(userId); then the deleteOldFile calls, the assignments
\* to the loaded profile, and the call of profile.save
LoadUser(c) ==
    /\ running[c].pc = "findUser"
    /\ \E h \in {running[c]} :
        \E found \in {findUser(users, h.req.caller)} :
        \E disk \in {IF IsSome(h.profile) THEN reclaim(files, h.req, Get(h.profile)) ELSE files} :
            /\ files' = disk
            /\ Goto(c, [h EXCEPT
                    !.user = IF found = {} THEN None ELSE Some(CHOOSE u \in found : TRUE),
                    !.reclaimed = files \ disk,
                    !.merged = IF IsSome(h.profile)
                               THEN Some(mergeProfile(Get(h.profile), h.req))
                               ELSE Some(newProfile(h.req.caller, h.req)),
                    !.pc = "saveProfile"])
    /\ UNCHANGED <<othersDir, now, profiles, users, education, experience, pending, last>>

\* await profile.save(); then the assignments to the loaded user and the call
\* of user.save, or the 200 when no user was found
SaveProfile(c) ==
    /\ running[c].pc = "saveProfile"
    /\ \E h \in {running[c]} :
        /\ profiles' =
              IF IsSome(h.profile)
              THEN {IF p.userId = h.req.caller
                    THEN saveLoaded(p, Get(h.profile), Get(h.merged)) ELSE p : p \in profiles}
              ELSE profiles \cup {Get(h.merged)}
        /\ IF IsSome(h.user)
           THEN Goto(c, [h EXCEPT !.pc = "saveUser"])
           ELSE Respond(c, 200, h.merged)
    /\ UNCHANGED <<files, othersDir, now, users, education, experience, pending, last>>

\* await user.save(); then the 200
SaveUser(c) ==
    /\ running[c].pc = "saveUser"
    /\ \E h \in {running[c]} :
        /\ users' = {IF u.id = h.req.caller
                      THEN saveLoaded(u, Get(h.user), mergeUser(Get(h.user), h.req)) ELSE u :
                         u \in users}
        /\ Respond(c, 200, h.merged)
    /\ UNCHANGED <<files, othersDir, now, profiles, education, experience, pending, last>>

\* u1 holds a Profile with a picture; each connection carries one request of u1
\* with no part or with a picture of one of two names
PriorProfile ==
    [userId |-> "u1", name |-> "Ann",
     profilePic |-> Some(UrlPath("images", filename(1, <<"c", "v">>))),
     profilePic2 |-> None, pdf |-> None, video |-> None, aboutText |-> Undefined]

RaceRequests ==
    {ProfileRequest(c, TextBody(n, t, Undefined), fm, "none") :
        c \in {"u1"}, n \in {"Ann", "Bob"}, t \in {Undefined, "new"},
        fm \in {NoFiles}
                \cup OnePartIn({"profilePic"}, {[main |-> "image", sub |-> "png"]},
                                {<<"c", "v">>, <<"i", "d">>})}

PriorFiles == {<<"images", filename(1, <<"c", "v">>)>>}

InitRace ==
    /\ files = PriorFiles
    /\ othersDir = FALSE
    /\ now = 1
    /\ profiles = {PriorProfile}
    /\ users = {UserDoc(u, "old") : u \in Users}
    /\ education = <<>>
    /\ experience = <<>>
    /\ pending = NoRequest
    /\ last = NoResponse
    /\ running = [c \in Conns |-> Idle]

NextRace ==
    \E c \in Conns :
        \/ \E req \in RaceRequests : Start(c, req)
        \/ LoadProfile(c)
        \/ LoadUser(c)
        \/ SaveProfile(c)
        \/ SaveUser(c)

SpecRace == InitRace /\ [][NextRace]_vars

\* ------------------------------------------------- the profile view
ViewFaults == {"none", "find"}
ViewRequest(caller, fault) == [op |-> "get-profile", caller |-> caller, fault |-> fault]
ViewRequests ==
    {ViewRequest(c, f) : c \in Callers, f \in ViewFaults}
        \cup {ProfileRequest(c, TextBody("Ann", Undefined, a), fm, "none") :
                 c \in Users, a \in {Undefined, "hi"},
                 fm \in {NoFiles} \cup OnePartIn({"profilePic2"},
                             {[main |-> "image", sub |-> "png"]}, {<<"c", "v">>})}

\* no User document at all, one for u1, one for u2, one for each
InitView ==
    /\ files = {}
    /\ othersDir = FALSE
    /\ now = 1
    /\ profiles = {}
    /\ users \in {{}, {UserDoc("u1", "old")}, {UserDoc("u2", Undefined)},
                 {UserDoc("u1", "old"), UserDoc("u2", Undefined)}}
    /\ education = <<>>
    /\ experience = <<>>
    /\ pending = NoRequest
    /\ last = NoResponse
    /\ running = [c \in Conns |-> Idle]

NextView ==
    \/ \E req \in ViewRequests : Receive(req)
    \/ UpdateProfile
    \/ GetProfile

SpecView == InitView /\ [][NextView]_vars

\* ------------------------------------------- the replace-all workflow
Edu(degreeName, collegeName, fromYear, toYear, userId) ==
    [degreeName |-> degreeName, collegeName |-> collegeName, fromYear |-> fromYear,
     toYear |-> toYear, userId |-> userId]
Exp(designation, companyName, fromTime, toTime, userId) ==
    [designation |-> designation, companyName |-> companyName, fromTime |-> fromTime,
     toTime |-> toTime, userId |-> userId]

\* two complete entries (the second carries somebody's userId), and one entry
\* with each required field left out in turn
\* two complete entries; the second carries somebody's userId
EduComplete ==
    { Edu("BSc", "X", "2018", "2022", Undefined), Edu("MSc", "Y", "2022", "2024", "u2") }
\* an entry with each required field left out in turn
EduIncomplete ==
    { Edu(Undefined, "X", "2018", "2022", Undefined), Edu("BSc", Undefined, "2018", "2022", Undefined),
      Edu("BSc", "X", Undefined, "2022", Undefined), Edu("BSc", "X", "2018", Undefined, Undefined) }
ExpComplete ==
    { Exp("Dev", "Acme", "2020", "2022", Undefined), Exp("Lead", "Init", "2022", "2024", "u2") }
ExpIncomplete ==
    { Exp(Undefined, "Acme", "2020", "2022", Undefined), Exp("Dev", Undefined, "2020", "2022", Undefined),
      Exp("Dev", "Acme", Undefined, "2022", Undefined), Exp("Dev", "Acme", "2020", Undefined, Undefined) }

SeqsUpTo(S, n) == UNION {[1..k -> S] : k \in 0..n}
\* arrays of complete entries; an incomplete entry alone, after and before a
\* complete one; every entry as a single object; a body that is no object
Bodies(complete, incomplete) ==
    {ArrayBody(items) : items \in SeqsUpTo(complete, MaxEntries)}
        \cup {ArrayBody(<<e>>) : e \in incomplete}
        \cup {ArrayBody(<<c, e>>) : c \in complete, e \in incomplete}
        \cup {ArrayBody(<<e, c>>) : c \in complete, e \in incomplete}
        \cup {ObjectBody(e) : e \in complete \cup incomplete}
        \cup {OtherBody}

RecordRequest(op, caller, body, fault) ==
    [op |-> op, caller |-> caller, body |-> body, fault |-> fault]
ReadRequest(op) == [op |-> op, caller |-> Undefined]

EducationRequests ==
    {RecordRequest("add-education", c, b, "none") : c \in Callers, b \in Bodies(EduComplete, EduIncomplete)}
ExperienceRequests ==
    {RecordRequest("add-experience", c, b, "none") : c \in Callers, b \in Bodies(ExpComplete, ExpIncomplete)}
ReadRequests == {ReadRequest("get-education"), ReadRequest("get-experience")}

\* the documents the two collections hold once the request is served, at most
Held(req) ==
    IF req.op = "add-education"
    THEN Len(deleteMany(education, req.caller)) + Len(req.body.items) + Len(experience)
    ELSE IF req.op = "add-experience"
    THEN Len(deleteMany(experience, req.caller)) + Len(req.body.items) + Len(education)
    ELSE Len(education) + Len(experience)

ReceiveRecords(req) ==
    /\ Held(req) <= MaxDocs
    /\ Receive(req)

RecordRequests == EducationRequests \cup ExperienceRequests \cup ReadRequests

\* the storage backend plays no part here
InitRecords == InitStore /\ othersDir = FALSE

NextRecords ==
    \/ \E req \in RecordRequests : ReceiveRecords(req)
    \/ AddEducation
    \/ AddExperience
    \/ GetEducation
    \/ GetExperience

SpecRecords == InitRecords /\ [][NextRecords]_vars

\* ------------------------------ add-education and add-experience, await by await
NoRecordRequest == [op |-> "none", caller |-> Undefined, body |-> OtherBody, fault |-> "none"]
\* a connection that carries no add-education or add-experience request
IdleRecord == [pc |-> "idle", req |-> NoRecordRequest, docs |-> <<>>, status |-> 0, data |-> None]

\* the handler starts: format check, req.user.id, the stamped copies, the
\* validation, and the call of deleteMany
Submit(c, req) ==
    /\ running[c].pc = "idle"
    /\ \E newData \in {normalize(req.body)} :
        \E docs \in {IF IsSome(newData) /\ req.caller # Undefined
                      THEN withUser(Get(newData), req.caller) ELSE <<>>} :
        \E bad \in {IF req.op = "add-education"
                     THEN \E i \in 1..Len(docs) : ~validEducation(docs[i])
                     ELSE \E i \in 1..Len(docs) : ~validExperience(docs[i])} :
            Goto(c, [running[c] EXCEPT
                !.req = req,
                !.docs = docs,
                !.pc = IF ~IsSome(newData) \/ req.caller = Undefined \/ bad
                       THEN "done" ELSE "deleteMany",
                !.status = IF ~IsSome(newData) THEN 400
                           ELSE IF req.caller = Undefined THEN 500
                           ELSE IF bad THEN 400 ELSE 0])
    /\ UNCHANGED <<files, othersDir, now, profiles, users, education, experience, pending, last>>

\* await Model.deleteMany({ userId }); then the call of insertMany
Delete(c) ==
    /\ running[c].pc = "deleteMany"
    /\ IF running[c].req.op = "add-education"
       THEN /\ education' = deleteMany(education, running[c].req.caller)
            /\ UNCHANGED experience
       ELSE /\ experience' = deleteMany(experience, running[c].req.caller)
            /\ UNCHANGED education
    /\ Goto(c, [running[c] EXCEPT !.pc = "insertMany"])
    /\ UNCHANGED <<files, othersDir, now, profiles, users, pending, last>>

\* await Model.insertMany(docs); then the 200
Insert(c) ==
    /\ running[c].pc = "insertMany"
    /\ IF running[c].req.op = "add-education"
       THEN /\ education' = insertMany(education, running[c].docs)
            /\ UNCHANGED experience
       ELSE /\ experience' = insertMany(experience, running[c].docs)
            /\ UNCHANGED education
    /\ Respond(c, 200, Some(running[c].docs))
    /\ UNCHANGED <<files, othersDir, now, profiles, users, pending, last>>

\* each connection carries one request of u1: an array of complete entries, one
\* incomplete entry, or a body that is no object
ConcurrentRequests ==
    {RecordRequest("add-education", "u1", b, "none") :
        b \in {ArrayBody(items) : items \in SeqsUpTo(EduComplete, MaxEntries)}
                \cup {ArrayBody(<<e>>) : e \in EduIncomplete} \cup {OtherBody}}
    \cup
    {RecordRequest("add-experience", "u1", b, "none") :
        b \in {ArrayBody(items) : items \in SeqsUpTo(ExpComplete, MaxEntries)}
                \cup {ArrayBody(<<e>>) : e \in ExpIncomplete} \cup {OtherBody}}

\* u2 holds one entry of each kind, u1 none
InitConcurrent ==
    /\ files = {}
    /\ othersDir = FALSE
    /\ now = 1
    /\ profiles = {}
    /\ users = {UserDoc(u, "old") : u \in Users}
    /\ education = <<Edu("BA", "Z", "2010", "2013", "u2")>>
    /\ experience = <<Exp("Ops", "Corp", "2013", "2015", "u2")>>
    /\ pending = NoRequest
    /\ last = NoResponse
    /\ running = [c \in Conns |-> IdleRecord]

NextConcurrent ==
    \E c \in Conns :
        \/ \E req \in ConcurrentRequests : Submit(c, req)
        \/ Delete(c)
        \/ Insert(c)

SpecConcurrent == InitConcurrent /\ [][NextConcurrent]_vars

\* ----------------------------- the replace-all workflow, database failing
\* arrays of complete entries, with a database call that throws or none
FaultRequests ==
    {RecordRequest("add-education", c, ArrayBody(items), f) :
        c \in Users, items \in SeqsUpTo(EduComplete, MaxEntries), f \in RecordFaults}
    \cup
    {RecordRequest("add-experience", c, ArrayBody(items), f) :
        c \in Users, items \in SeqsUpTo(ExpComplete, MaxEntries), f \in RecordFaults}

NextFaults ==
    \/ \E req \in FaultRequests : ReceiveRecords(req)
    \/ AddEducation
    \/ AddExperience

SpecFaults == InitRecords /\ [][NextFaults]_vars

\* =================================================================== claims
PathFields == {"profilePic", "profilePic2", "pdf", "video"}
Writes == {"update-profile", "add-education", "add-experience"}
\* the step that serves a request of kind op
Serves(op) == pending.op = op /\ last'.op = op
\* the upload middleware passes the request in flight on to the route handler
ReachesHandler ==
    pending.op = "update-profile" => upload(pending, files, othersDir).ok
\* the caller's Profile, before and after the step
Before == findProfile(profiles, pending.caller)
After == findProfile(profiles', pending.caller)
\* the files some path field of a profile of owner u names
Referenced(profs, u) ==
    UNION {{fullPath(Get(p[f])) : f \in {g \in PathFields : IsSome(p[g])}} :
              p \in findProfile(profs, u)}

\* C1: in every reachable state each non-null path field of every Profile names
\* a file that exists on the storage backend.
C1_PathsNameStoredFiles ==
    \A p \in profiles : \A f \in PathFields :
        IsSome(p[f]) => fullPath(Get(p[f])) \in files

\* C2: a valid update-profile that ends in 200 and uploads into a slot whose
\* field held a path leaves no file at the prior path, and the returned path of
\* that slot is the place where the new file was stored.
C2_PriorReclaimedNewReturned ==
    [][(Serves("update-profile") /\ last'.status = 200) =>
        \A s \in Slots : \A p \in Before :
            (IsSome(pending.files[s]) /\ IsSome(p[FieldOf[s]])) =>
                /\ fullPath(Get(p[FieldOf[s]])) \notin files'
                /\ IsSome(Get(last'.data)[FieldOf[s]])
                /\ fullPath(Get(Get(last'.data)[FieldOf[s]])) = StoredAt(Get(pending.files[s]))]_vars

\* C4: an update-profile of a resolved caller with an empty or absent name is
\* answered 400 and writes nothing: no record changes, no file is deleted and
\* no uploaded file is stored.
C4_NamelessWritesNothing ==
    [][(Serves("update-profile") /\ ReachesHandler /\ Truthy(pending.caller)
            /\ Falsy(pending.body.name)) =>
        /\ last'.status = 400
        /\ UNCHANGED <<files, profiles, users, education, experience>>]_vars

\* the bucket the specification assigns to a media type
Bucket(type) ==
    IF type.main = "image" THEN "images"
    ELSE IF type.main = "application" /\ type.sub = "pdf" THEN "pdfs"
    ELSE IF type.main = "video" THEN "videos"
    ELSE "others"

\* C9: every uploaded file of an update-profile that ends in 200 is stored in
\* the bucket of its media type, and the path recorded in the Profile and
\* returned is /uploads/<that bucket>/<generated name>.
C9_PathInBucketOfType ==
    [][(Serves("update-profile") /\ last'.status = 200) =>
        \A s \in Slots : IsSome(pending.files[s]) =>
            LET part == Get(pending.files[s])
                name == filename(part.at, part.originalname)
            IN  /\ StoredAt(part) = <<Bucket(part.mimetype), name>>
                /\ Get(last'.data)[FieldOf[s]] = Some(UrlPath(Bucket(part.mimetype), name))
                /\ \A p \in After : p[FieldOf[s]] = Some(UrlPath(Bucket(part.mimetype), name))]_vars

\* the slots of the request in flight that carry a part
Uploaded == {s \in Slots : IsSome(pending.files[s])}
OwnedBy(coll, u) == SelectSeq(coll, LAMBDA d : d.userId = u)
NotOwnedBy(coll, u) == SelectSeq(coll, LAMBDA d : d.userId # u)

\* C3: a valid update-profile on an existing Profile keeps the path of every
\* slot without a new upload and does not delete that slot's file; only prior
\* files of re-uploaded slots are deleted; without files nothing stored changes.
C3_UntouchedSlotsPreserved ==
    [][(Serves("update-profile") /\ Truthy(pending.caller) /\ Truthy(pending.body.name)
            /\ Before # {}) =>
        \A p \in Before :
            /\ \A s \in Slots \ Uploaded :
                /\ \A q \in After : q[FieldOf[s]] = p[FieldOf[s]]
                /\ (IsSome(p[FieldOf[s]]) /\ fullPath(Get(p[FieldOf[s]])) \in files)
                      => fullPath(Get(p[FieldOf[s]])) \in files'
            /\ files \ files' \subseteq
                  {fullPath(Get(p[FieldOf[s]])) : s \in {x \in Uploaded : IsSome(p[FieldOf[x]])}}
            /\ Uploaded = {} => files' = files]_vars

\* C7: a write request of an authenticated caller changes no Profile, User
\* document, entry or referenced file of any other owner, and every entry it
\* inserts carries the caller's id.
C7_NoCrossUserWrites ==
    [][(pending.op \in Writes /\ last'.op = pending.op /\ pending.caller \in Users) =>
        /\ \A o \in Users \ {pending.caller} :
            /\ findProfile(profiles', o) = findProfile(profiles, o)
            /\ findUser(users', o) = findUser(users, o)
            /\ OwnedBy(education', o) = OwnedBy(education, o)
            /\ OwnedBy(experience', o) = OwnedBy(experience, o)
            /\ (Referenced(profiles, o) \cap files) \subseteq files'
        /\ (pending.op \in {"add-education", "add-experience"} /\ last'.status = 200) =>
              \A i \in 1..Len(Get(last'.data)) : Get(last'.data)[i].userId = pending.caller]_vars

\* C8: a write request that reaches its handler without a caller identity is
\* answered 401 and changes no persisted record.
C8_NoCallerIs401 ==
    [][(pending.op \in Writes /\ last'.op = pending.op /\ ReachesHandler
            /\ Falsy(pending.caller)) =>
        /\ last'.status = 401
        /\ UNCHANGED <<profiles, users, education, experience>>]_vars

EducationRequired == {"degreeName", "collegeName", "fromYear", "toYear"}
ExperienceRequired == {"designation", "companyName", "fromTime", "toTime"}
\* the entries a body submits
Submitted(body) == body.items
Lacks(entry, fields) == \E f \in fields : entry[f] = Undefined
SomeEntryLacks(body, fields) ==
    \E i \in 1..Len(Submitted(body)) : Lacks(Submitted(body)[i], fields)

\* C5: an add-education or add-experience of an owner in which some entry lacks
\* one of the kind's four required fields is answered 400, inserts nothing and
\* leaves the stored entries as they were.
C5_IncompleteSubmissionRejected ==
    [][/\ (Serves("add-education") /\ pending.caller \in Users
              /\ SomeEntryLacks(pending.body, EducationRequired)) =>
            (last'.status = 400 /\ UNCHANGED <<education, experience>>)
       /\ (Serves("add-experience") /\ pending.caller \in Users
              /\ SomeEntryLacks(pending.body, ExperienceRequired)) =>
            (last'.status = 400 /\ UNCHANGED <<education, experience>>)]_vars

\* an owner who holds entries has an incomplete submission turned down
C5_Witness ==
    /\ last.op = "add-education"
    /\ last.status = 400
    /\ last.data = Some(EducationFieldsRequired)
    /\ last.caller \in Users
    /\ Len(OwnedBy(education, last.caller)) > 0

\* what the owner c holds after a replace-all of the submitted entries
Replaced(coll, body, c) ==
    /\ Len(OwnedBy(coll, c)) = Len(Submitted(body))
    /\ \A i \in 1..Len(Submitted(body)) :
          OwnedBy(coll, c)[i] = [Submitted(body)[i] EXCEPT !.userId = c]

\* C6: after a successful add-education (add-experience) of an owner, the owner
\* holds exactly the submitted entries and the other owners' entries are as
\* before; a get-education (get-experience) that follows returns exactly these.
C6_ReplaceAllRoundTrip ==
    [][/\ (Serves("add-education") /\ last'.status = 200) =>
            /\ Replaced(education', pending.body, pending.caller)
            /\ NotOwnedBy(education', pending.caller) = NotOwnedBy(education, pending.caller)
            /\ Get(last'.data) = OwnedBy(education', pending.caller)
       /\ (Serves("get-education") /\ last.op = "add-education" /\ last.status = 200) =>
            /\ last'.status = 200
            /\ OwnedBy(Get(last'.data), last.caller) = Get(last.data)
            /\ NotOwnedBy(Get(last'.data), last.caller) = NotOwnedBy(education, last.caller)
            /\ UNCHANGED <<education, experience>>
       /\ (Serves("add-experience") /\ last'.status = 200) =>
            /\ Replaced(experience', pending.body, pending.caller)
            /\ NotOwnedBy(experience', pending.caller) = NotOwnedBy(experience, pending.caller)
            /\ Get(last'.data) = OwnedBy(experience', pending.caller)
       /\ (Serves("get-experience") /\ last.op = "add-experience" /\ last.status = 200) =>
            /\ last'.status = 200
            /\ OwnedBy(Get(last'.data), last.caller) = Get(last.data)
            /\ NotOwnedBy(Get(last'.data), last.caller) = NotOwnedBy(experience, last.caller)
            /\ UNCHANGED <<education, experience>>]_vars

\* a listing that holds one owner's entries next to another owner's
C6_Witness ==
    /\ last.op = "get-education"
    /\ last.status = 200
    /\ \E i, j \in 1..Len(Get(last.data)) :
          Get(last.data)[i].userId = "u1" /\ Get(last.data)[j].userId = "u2"

\* C10: a successful update-profile merges each of phoneNumber, degree,
\* birthday, address and experience of the caller's User document (the incoming
\* value when truthy, the existing one otherwise), keeps the email and saves the
\* document; without a User document the Profile is still written and 200 answered.
C10_UserMerge ==
    [][/\ (Serves("update-profile") /\ last'.status = 200) =>
            /\ \A u \in findUser(users, pending.caller) :
                  /\ Cardinality(findUser(users', pending.caller)) = 1
                  /\ \A v \in findUser(users', pending.caller) :
                        /\ v.email = u.email
                        /\ \A f \in TextFields :
                              v[f] = IF Truthy(pending.body[f]) THEN pending.body[f] ELSE u[f]
            /\ findUser(users, pending.caller) = {} => users' = users
            /\ \A o \in Users \ {pending.caller} : findUser(users', o) = findUser(users, o)
       /\ (Serves("update-profile") /\ ReachesHandler /\ Truthy(pending.caller)
              /\ Truthy(pending.body.name) /\ pending.fault = "none"
              /\ findUser(users, pending.caller) = {}) =>
            (last'.status = 200 /\ After # {} /\ Get(last'.data) \in After)]_vars

\* the caller's User document took one incoming value and kept another
C10_Witness ==
    /\ last.op = "update-profile"
    /\ last.status = 200
    /\ last.caller = "u1"
    /\ \E u \in findUser(users, "u1") : u.phoneNumber = "new" /\ u.degree = "old"

\* the owners a get-profile may resolve: the caller, or else any stored User
Resolved == IF Truthy(pending.caller) THEN {pending.caller} ELSE {u.id : u \in users}
\* the answer to a get-profile for owner o
ViewOf(o, status, data) ==
    IF findProfile(profiles, o) = {} \/ findUser(users, o) = {}
    THEN status = 404
    ELSE /\ status = 200
         /\ \E p \in findProfile(profiles, o) : \E u \in findUser(users, o) :
               /\ Get(data).name = p.name
               /\ Get(data).email = u.email
               /\ Get(data).profilePic = p.profilePic
               /\ IsSome(p.profilePic2) => Get(data).profilePic2 = p.profilePic2
               /\ Get(data).pdf = p.pdf
               /\ Get(data).video = p.video
               /\ Truthy(p.aboutText) => Get(data).aboutText = p.aboutText
               /\ \A f \in TextFields : Truthy(u[f]) => Get(data)[f] = u[f]

\* C11: a get-profile whose lookups succeed answers for the caller or, without
\* one, for a stored User: 404 when that owner's Profile or User document is
\* missing or no User exists, else 200 with the merged view; it changes no record.
C11_GetProfile ==
    [][Serves("get-profile") =>
        /\ UNCHANGED <<files, profiles, users, education, experience>>
        /\ pending.fault = "none" =>
            IF Resolved = {} THEN last'.status = 404
            ELSE \E o \in Resolved : ViewOf(o, last'.status, last'.data)]_vars

\* a request without a caller is answered with the view of a stored User
C11_Witness ==
    /\ last.op = "get-profile"
    /\ last.status = 200
    /\ last.caller = Undefined
    /\ Get(last.data).email = <<"u2", "@", "mail">>
    /\ Get(last.data).profilePic2 # Some(EmptyPath)

\* the disk as the upload middleware leaves it to the handler
Handed == upload(pending, files, othersDir).disk
\* the request in flight is a valid update of an existing Profile whose database calls succeed
ValidUpdate ==
    /\ pending.op = "update-profile"
    /\ ReachesHandler
    /\ Truthy(pending.caller)
    /\ Truthy(pending.body.name)
    /\ pending.fault = "none"
\* the uploaded slots whose field in profile p holds a path
Reuploaded(p) == {s \in Uploaded : IsSome(p[FieldOf[s]])}
\* ... and of these, the ones whose prior file is no longer stored
PriorMissing(p) == {s \in Reuploaded(p) : fullPath(Get(p[FieldOf[s]])) \notin Handed}
\* every path a Profile field can hold over the files and directories at hand
KnownPaths ==
    {UrlPath(d, filename(t, n)) : d \in StartupDirs \cup {"others"}, t \in Times, n \in OrigNames}

\* C12: the reclaimer called on a null path, or on a path whose file is absent,
\* deletes nothing; an update-profile that re-uploads a slot whose prior file is
\* already missing ends in 200, deletes nothing for that slot and records the
\* path of the new upload in the slot's field.
C12_ReclaimIdempotent ==
    [][/\ deleteOldFile(files, None) = files
       /\ \A path \in KnownPaths :
             fullPath(path) \notin files => deleteOldFile(files, Some(path)) = files
       /\ ValidUpdate =>
             \A p \in Before : PriorMissing(p) # {} =>
                /\ last'.status = 200
                /\ Handed \ files' \subseteq
                      {fullPath(Get(p[FieldOf[s]])) : s \in Reuploaded(p) \ PriorMissing(p)}
                /\ \A s \in PriorMissing(p) : \A q \in After :
                      /\ IsSome(q[FieldOf[s]])
                      /\ fullPath(Get(q[FieldOf[s]]))[2] =
                            filename(Get(pending.files[s]).at, Get(pending.files[s]).originalname)
                      /\ Get(last'.data)[FieldOf[s]] = q[FieldOf[s]]]_vars

\* a re-upload is in flight into a slot whose prior path names no stored file
C12_Witness ==
    /\ ValidUpdate
    /\ \E p \in findProfile(profiles, pending.caller) : PriorMissing(p) # {}

\* connection c takes the step that follows the await named pc
Resumes(c, pc) == running[c].pc = pc /\ running'[c].pc # pc
\* the slots into which the request of connection c uploaded a file whose path
\* differs from the one the connection loaded
Renewed(c) ==
    {s \in Slots : /\ IsSome(running[c].req.files[s])
                   /\ Get(running[c].merged)[FieldOf[s]] # Get(running[c].profile)[FieldOf[s]]}

\* C13: concurrent update-profile requests of one owner are not serialized and
\* no save detects a conflict: a request that loaded a Profile saves its new
\* paths over whatever was stored since, so the stored paths are those of the
\* request that saved last, and every request that passed the checks ends in 200.
C13_LastSaveWins ==
    [][\A c \in Conns :
        /\ (Resumes(c, "saveProfile") /\ IsSome(running[c].profile)) =>
              \A q \in findProfile(profiles', running[c].req.caller) :
                  /\ \A s \in Renewed(c) :
                        q[FieldOf[s]] = Get(running[c].merged)[FieldOf[s]]
                  /\ \A s \in Slots \ Renewed(c) :
                        \E p \in findProfile(profiles, running[c].req.caller) :
                            q[FieldOf[s]] = p[FieldOf[s]]
        /\ (running[c].pc \in {"saveProfile", "saveUser"} /\ running'[c].pc = "done") =>
              (running'[c].status = 200 /\ running'[c].data = running[c].merged)]_vars

\* both requests loaded the same Profile and both ended in 200; the stored
\* Profile is the merged state of connection 2, and the picture connection 1
\* saved and returned is in no Profile
C13_Witness ==
    /\ \A c \in Conns : running[c].pc = "done" /\ running[c].status = 200
    /\ running[1].profile = Some(PriorProfile)
    /\ running[2].profile = Some(PriorProfile)
    /\ IsSome(running[1].req.files["profilePic"])
    /\ IsSome(running[2].req.files["profilePic"])
    /\ Get(running[1].data).profilePic # Get(running[2].data).profilePic
    /\ Get(running[1].data).profilePic # PriorProfile.profilePic
    /\ Get(running[2].data).profilePic # PriorProfile.profilePic
    /\ profiles = {Get(running[2].merged)}
    /\ running[1].wrote \cap Referenced(profiles, "u1") = {}

\* one request deleted the file the other had stored and whose path the other
\* is still to return
C13_ReclaimedFresh ==
    \E c \in Conns : \E o \in Conns \ {c} :
        /\ running[c].reclaimed \cap running[o].wrote # {}
        /\ running[o].wrote \cap PriorFiles = {}
        /\ running[o].pc = "saveUser"

\* the request in flight passes the format check and the validation
Accepted(required) ==
    /\ pending.caller \in Users
    /\ pending.body.shape # "other"
    /\ ~SomeEntryLacks(pending.body, required)

\* C14: when the insert of an accepted add-education or add-experience throws
\* after the delete went through, the answer is 500 and the owner is left with
\* no entry of that kind, the others' entries being as before; when the delete
\* throws, the answer is 500 and the stored entries are unchanged.
C14_DeleteInsertNotAtomic ==
    [][/\ (Serves("add-education") /\ Accepted(EducationRequired)) =>
            /\ pending.fault = "insertMany" =>
                  /\ last'.status = 500
                  /\ OwnedBy(education', pending.caller) = <<>>
                  /\ NotOwnedBy(education', pending.caller) = NotOwnedBy(education, pending.caller)
                  /\ experience' = experience
            /\ pending.fault = "deleteMany" =>
                  (last'.status = 500 /\ education' = education /\ experience' = experience)
       /\ (Serves("add-experience") /\ Accepted(ExperienceRequired)) =>
            /\ pending.fault = "insertMany" =>
                  /\ last'.status = 500
                  /\ OwnedBy(experience', pending.caller) = <<>>
                  /\ NotOwnedBy(experience', pending.caller) = NotOwnedBy(experience, pending.caller)
                  /\ education' = education
            /\ pending.fault = "deleteMany" =>
                  (last'.status = 500 /\ education' = education /\ experience' = experience)]_vars

\* an owner who holds experience entries next to another owner's submits new
\* ones, and the insert is going to throw
C14_Witness ==
    /\ pending.op = "add-experience"
    /\ pending.fault = "insertMany"
    /\ Accepted(ExperienceRequired)
    /\ Len(pending.body.items) > 0
    /\ Len(OwnedBy(experience, pending.caller)) > 0
    /\ Len(NotOwnedBy(experience, pending.caller)) > 0

\* the request in flight passes the upload and the two checks of the handler
PastChecks ==
    /\ pending.op = "update-profile"
    /\ ReachesHandler
    /\ Truthy(pending.caller)
    /\ Truthy(pending.body.name)
\* what the handler saves as the caller's Profile
ToSave ==
    IF Before # {} THEN {mergeProfile(p, pending) : p \in Before}
    ELSE {newProfile(pending.caller, pending)}

\* C15: when the Profile save of an update-profile throws, the answer is 500,
\* the prior files of the re-uploaded slots are gone while the stored Profile
\* keeps the prior paths, the uploaded files stay stored and the User document
\* is untouched; when the User save throws after the Profile save, the answer
\* is 500 and the Profile change is stored.
C15_NoRollback ==
    [][(Serves("update-profile") /\ PastChecks) =>
        /\ pending.fault = "saveProfile" =>
              /\ last'.status = 500
              /\ profiles' = profiles
              /\ users' = users
              /\ \A p \in Before : \A s \in Reuploaded(p) :
                    fullPath(Get(p[FieldOf[s]])) \notin files'
              /\ Incoming(pending) \subseteq files'
        /\ (pending.fault = "saveUser" /\ findUser(users, pending.caller) # {}) =>
              /\ last'.status = 500
              /\ After = ToSave
              /\ users' = users]_vars

\* C15 for an upload whose generated name is not the name of the prior file
C15_NoRollbackOfDistinctNames ==
    [][(Serves("update-profile") /\ PastChecks
            /\ \A p \in Before : \A s \in Reuploaded(p) :
                   fullPath(Get(p[FieldOf[s]])) \notin Incoming(pending)) =>
        /\ pending.fault = "saveProfile" =>
              /\ last'.status = 500
              /\ profiles' = profiles
              /\ users' = users
              /\ \A p \in Before : \A s \in Reuploaded(p) :
                    fullPath(Get(p[FieldOf[s]])) \notin files'
              /\ Incoming(pending) \subseteq files'
        /\ (pending.fault = "saveUser" /\ findUser(users, pending.caller) # {}) =>
              /\ last'.status = 500
              /\ After = ToSave
              /\ users' = users]_vars

\* both connections have answered 200 to a request of kind op
BothDone(op) ==
    \A c \in Conns :
        running[c].pc = "done" /\ running[c].status = 200 /\ running[c].req.op = op
\* the owner of the two requests holds the entries of exactly one of them
HoldsOneOf(coll) ==
    \E c \in Conns : OwnedBy(coll, running[c].req.caller) = running[c].docs

\* C16: once two concurrent add-education (add-experience) requests of one
\* owner have both ended in 200, the owner holds the entries one of the two
\* submitted: not those of both, and not none when both submitted some.
C16_OneSubmissionSurvives ==
    /\ (BothDone("add-education") /\ running[1].req.caller = running[2].req.caller)
          => HoldsOneOf(education)
    /\ (BothDone("add-experience") /\ running[1].req.caller = running[2].req.caller)
          => HoldsOneOf(experience)

\* the request in flight is an owner's submission of the empty array
EmptySubmission == pending.caller \in Users /\ pending.body = ArrayBody(<<>>)

\* C17: an add-education or add-experience of an owner whose body is the empty
\* array is answered 200 with an empty list, leaves the owner without entries
\* of that kind and inserts nothing; after any submission answered 200 the
\* owner holds as many entries of the kind as were submitted.
C17_EmptySubmissionClears ==
    [][/\ (Serves("add-education") /\ EmptySubmission) =>
            /\ last'.status = 200
            /\ last'.data = Some(<<>>)
            /\ OwnedBy(education', pending.caller) = <<>>
            /\ education' = NotOwnedBy(education, pending.caller)
            /\ experience' = experience
       /\ (Serves("add-experience") /\ EmptySubmission) =>
            /\ last'.status = 200
            /\ last'.data = Some(<<>>)
            /\ OwnedBy(experience', pending.caller) = <<>>
            /\ experience' = NotOwnedBy(experience, pending.caller)
            /\ education' = education
       /\ (Serves("add-education") /\ last'.status = 200) =>
            Len(OwnedBy(education', pending.caller)) = Len(Submitted(pending.body))
       /\ (Serves("add-experience") /\ last'.status = 200) =>
            Len(OwnedBy(experience', pending.caller)) = Len(Submitted(pending.body))]_vars

\* an empty submission was answered 200 with an empty list; the owner holds
\* no experience entry while another owner holds some
C17_Witness ==
    /\ last.op = "add-experience"
    /\ last.status = 200
    /\ last.data = Some(<<>>)
    /\ last.caller \in Users
    /\ OwnedBy(experience, last.caller) = <<>>
    /\ Len(experience) > 0

\* C18: whenever no update-profile is in flight, every stored file is named by
\* a path field of some stored Profile.
C18_NoOrphanedFiles ==
    pending = NoRequest =>
        \A f \in files : \E p \in profiles : \E g \in PathFields :
            IsSome(p[g]) /\ fullPath(Get(p[g])) = f

====
